---- MODULE Spec2Model ----
(***************************************************************************)
(* Model of the titledb reducers tiny.py and trim.py: one run of either    *)
(* script over a small file system, from argument parsing to process exit. *)
(***************************************************************************)
EXTENDS Integers, Sequences, FiniteSets, TLC

\* ------------------------------------------------------------------ bounds
\* Largest number of titles in an input database.
MaxTitles == 3
\* Largest number of names given after -f.
MaxFields == 2

\* --------------------------------------------------------------- constants
\* tiny.py's allow-list.
VALID_FIELDS ==
    << "bannerUrl", "category", "description", "developer", "frontBoxArt",
       "iconUrl", "id", "intro", "isDemo", "key", "language", "languages",
       "name", "nsuId", "numberOfPlayers", "publisher", "rank", "rating",
       "ratingContent", "region", "regions", "releaseDate", "rightsId",
       "screenshots", "size", "version" >>

\* TRIM_KEYS with the last entry of the dict literal left out.
TRIM_KEYS_no_size == << "description", "iconUrl", "id", "name", "releaseDate" >>

\* The keys trim.py copies, in the order of its dict literal.
TRIM_KEYS == << "description", "iconUrl", "id", "name", "releaseDate", "size" >>

\* ------------------------------------------------------------- JSON values
\* A JSON value in memory: a string, another literal (number, true, false,
\* null, an array; kept as its text) or an object, whose members are a
\* sequence of <<key, value>> pairs in insertion order, keys distinct (a
\* Python dict).
Str(s) == [t |-> "str", s |-> s, m |-> << >>]
Lit(s) == [t |-> "lit", s |-> s, m |-> << >>]
Obj(m) == [t |-> "obj", s |-> "", m |-> m]

IsDict(v) == v.t = "obj"

\* The literals Python's bool() maps to False.
FalsyLiterals == {"null", "false", "0", "0.0", "[]"}

\* Truthy with an "is not None" test in place of bool().
Truthy_not_none(v) == v # Lit("null")

\* bool(v) of a loaded JSON value.
Truthy(v) ==
    CASE v.t = "str" -> v.s # ""
      [] v.t = "lit" -> v.s \notin FalsyLiterals
      [] v.t = "obj" -> v.m # << >>

SeqToSet(s) == {s[i] : i \in DOMAIN s}

\* The keys of a dict, in order, and as a set.
KeySeq(m) == [i \in DOMAIN m |-> m[i][1]]
Keys(m) == {m[i][1] : i \in DOMAIN m}

\* key in d
Has(m, k) == k \in Keys(m)

\* d[key], for a key of d
Get(m, k) == m[CHOOSE i \in DOMAIN m : m[i][1] = k][2]

\* d[key] = value: a new key goes last, an old key keeps its place.
DictSet(m, k, v) ==
    IF Has(m, k)
    THEN [i \in DOMAIN m |-> IF m[i][1] = k THEN <<k, v>> ELSE m[i]]
    ELSE Append(m, <<k, v>>)

\* GetNameTruthy with a test of "name" in title_data in place of the value.
GetNameTruthy_present(m) == Has(m, "name")

\* d.get("name"): the value, or None (falsy) when the key is missing.
GetNameTruthy(m) == Has(m, "name") /\ Truthy(Get(m, "name"))

\* ------------------------------------------------------------------- files
\* A file's text is a sequence of tokens: punctuation, a quoted string, or
\* another literal.
TokP(s) == [t |-> "p", s |-> s]
TokStr(s) == [t |-> "str", s |-> s]
TokLit(s) == [t |-> "lit", s |-> s]

\* json.dump(v, f, separators=(",", ":")): the text of a value.
RECURSIVE Dump(_)
RECURSIVE DumpMembers(_, _)
DumpMembers(m, i) ==
    IF i > Len(m) THEN << >>
    ELSE (IF i > 1 THEN << TokP(",") >> ELSE << >>)
         \o << TokStr(m[i][1]), TokP(":") >> \o Dump(m[i][2])
         \o DumpMembers(m, i + 1)

Dump(v) ==
    CASE v.t = "str" -> << TokStr(v.s) >>
      [] v.t = "lit" -> << TokLit(v.s) >>
      [] v.t = "obj" -> << TokP("{") >> \o DumpMembers(v.m, 1) \o << TokP("}") >>

\* json.load(f): a recursive-descent parse of the whole text. The result is
\* [ok, v, next]: whether a value starts at position i, the value, and the
\* position after it. A repeated key keeps its first place and last value.
ParseFail == [ok |-> FALSE, v |-> Lit("null"), next |-> 0]

RECURSIVE ParseValue(_, _)
RECURSIVE ParseMembers(_, _, _)
ParseMembers(toks, i, acc) ==
    IF i + 1 > Len(toks) \/ toks[i].t # "str" \/ toks[i + 1] # TokP(":")
    THEN ParseFail
    ELSE LET r == ParseValue(toks, i + 2) IN
         IF ~r.ok \/ r.next > Len(toks) THEN ParseFail
         ELSE LET acc2 == DictSet(acc, toks[i].s, r.v) IN
              IF toks[r.next] = TokP("}")
              THEN [ok |-> TRUE, v |-> Obj(acc2), next |-> r.next + 1]
              ELSE IF toks[r.next] = TokP(",")
                   THEN ParseMembers(toks, r.next + 1, acc2)
                   ELSE ParseFail

ParseValue(toks, i) ==
    IF i > Len(toks) THEN ParseFail
    ELSE CASE toks[i].t = "str" -> [ok |-> TRUE, v |-> Str(toks[i].s), next |-> i + 1]
           [] toks[i].t = "lit" -> [ok |-> TRUE, v |-> Lit(toks[i].s), next |-> i + 1]
           [] toks[i] = TokP("{") ->
                IF i + 1 <= Len(toks) /\ toks[i + 1] = TokP("}")
                THEN [ok |-> TRUE, v |-> Obj(<< >>), next |-> i + 2]
                ELSE ParseMembers(toks, i + 1, << >>)
           [] OTHER -> ParseFail

\* json.load on a whole file: fails (JSONDecodeError) unless exactly one
\* value fills the text.
Load(toks) ==
    LET r == ParseValue(toks, 1) IN
    IF r.ok /\ r.next = Len(toks) + 1 THEN [ok |-> TRUE, v |-> r.v]
    ELSE [ok |-> FALSE, v |-> Lit("null")]

\* ----------------------------------------------------------------- reducer
\* Project with title_data.get(field) and no test of field in title_data.
RECURSIVE Project_get(_, _, _)
Project_get(title_data, names, acc) ==
    IF names = << >> THEN acc
    ELSE LET field == Head(names) IN
         Project_get(title_data, Tail(names),
                     DictSet(acc, field,
                             IF Has(title_data, field) THEN Get(title_data, field)
                             ELSE Lit("null")))

\* tiny.py line 102, the dict comprehension: the names are walked in order
\* and each one the record has is copied.
RECURSIVE Project(_, _, _)
Project(title_data, names, acc) ==
    IF names = << >> THEN acc
    ELSE LET field == Head(names) IN
         Project(title_data, Tail(names),
                 IF Has(title_data, field)
                 THEN DictSet(acc, field, Get(title_data, field))
                 ELSE acc)

\* KeepFields walking fields alone, without "or title_data".
KeepFields_no_default(title_data, fields) == Project(title_data, fields, << >>)

\* tiny.py line 102: (fields or title_data) is the record's own keys when the
\* list of fields is empty.
KeepFields(title_data, fields) ==
    Project(title_data, IF fields # << >> THEN fields ELSE KeySeq(title_data), << >>)

\* tiny.py line 105: the divisor of the progress test.
ProgressStep(n) == IF n > 10 THEN n \div 10 ELSE 1

\* tiny.py lines 99-106: the loop, from the count-th item on. The result
\* holds the exception that ended it ("" for none), the reduced mapping and
\* the counts at which progress was logged.
RECURSIVE TrimLoop(_, _, _, _, _)
TrimLoop(data, fields, count, new_data, progress) ==
    IF count > Len(data)
    THEN [raised |-> "", new_data |-> new_data, progress |-> progress]
    ELSE LET title_id == data[count][1]
             title_data == data[count][2]
         IN  IF ~IsDict(title_data)
             THEN [raised |-> "AttributeError", new_data |-> new_data, progress |-> progress]
             ELSE LET kept == IF GetNameTruthy(title_data.m)
                              THEN DictSet(new_data, title_id,
                                           Obj(KeepFields(title_data.m, fields)))
                              ELSE new_data
                      step == ProgressStep(Len(data))
                  IN  IF step = 0
                      THEN [raised |-> "ZeroDivisionError", new_data |-> kept,
                            progress |-> progress]
                      ELSE TrimLoop(data, fields, count + 1, kept,
                                    IF count % step = 0 \/ count = Len(data)
                                    THEN Append(progress, count)
                                    ELSE progress)

\* trim_titledb with a last progress record after the loop, its percentage
\* a division by len(data).
trim_titledb_final_progress(data, fields) ==
    IF ~IsDict(data)
    THEN [raised |-> "AttributeError", new_data |-> << >>, progress |-> << >>]
    ELSE LET r == TrimLoop(data.m, fields, 1, << >>, << >>) IN
         IF r.raised = "" /\ Len(data.m) = 0
         THEN [raised |-> "ZeroDivisionError", new_data |-> r.new_data,
               progress |-> r.progress]
         ELSE r

\* tiny.py trim_titledb(data, fields), data a JSON value: data.items() raises
\* on anything but a dict.
trim_titledb(data, fields) ==
    IF ~IsDict(data)
    THEN [raised |-> "AttributeError", new_data |-> << >>, progress |-> << >>]
    ELSE TrimLoop(data.m, fields, 1, << >>, << >>)

\* trim.py lines 20-27: the dict literal; v[key] raises KeyError on a
\* missing key.
HasTrimKeys(v) == \A i \in DOMAIN TRIM_KEYS : Has(v, TRIM_KEYS[i])
TrimRecord(v) == [i \in DOMAIN TRIM_KEYS |-> << TRIM_KEYS[i], Get(v, TRIM_KEYS[i]) >>]

\* trim.py lines 15-27: the loop, from the i-th item on.
RECURSIVE TrimPyLoop(_, _, _)
TrimPyLoop(data, i, new_data) ==
    IF i > Len(data) THEN [raised |-> "", new_data |-> new_data]
    ELSE LET k == data[i][1]
             v == data[i][2]
         IN  IF ~IsDict(v) THEN [raised |-> "AttributeError", new_data |-> new_data]
             ELSE IF ~GetNameTruthy(v.m) THEN TrimPyLoop(data, i + 1, new_data)
             ELSE IF ~HasTrimKeys(v.m) THEN [raised |-> "KeyError", new_data |-> new_data]
             ELSE TrimPyLoop(data, i + 1, DictSet(new_data, k, Obj(TrimRecord(v.m))))

trim_py(data) ==
    IF ~IsDict(data) THEN [raised |-> "AttributeError", new_data |-> << >>]
    ELSE TrimPyLoop(data.m, 1, << >>)

\* ------------------------------------------------------------------ inputs
\* The titles of the input databases: named with a key outside the
\* allow-list, unnamed, with an empty name, and with the keys trim.py needs
\* and one more.
SampleRecords ==
    { Obj(<< <<"name", Str("X")>>, <<"size", Lit("1")>>, <<"extra", Str("y")>> >>),
      Obj(<< <<"size", Lit("2")>> >>),
      Obj(<< <<"name", Str("")>>, <<"size", Lit("3")>> >>),
      Obj(<< <<"id", Str("0100")>>, <<"name", Str("Z")>>, <<"description", Str("d")>>,
             <<"iconUrl", Str("u")>>, <<"releaseDate", Lit("20200101")>>,
             <<"size", Lit("4")>>, <<"bannerUrl", Obj(<< >>)>> >>) }

\* The title id of the i-th title of a database (not in sorted order).
TitleIdAt(i) == "T" \o ToString((i * 2) % 5)

\* The databases: up to MaxTitles titles.
Databases ==
    UNION { { Obj([i \in 1..n |-> << TitleIdAt(i), recs[i] >>]) :
              recs \in [1..n -> SampleRecords] } : n \in 0..MaxTitles }

\* The names a command line gives after -f: up to MaxFields names, none
\* given twice.
FieldChoices == {"name", "id", "notAField"}
FieldLists ==
    UNION { { f \in [1..n -> FieldChoices] : \A i, j \in 1..n : f[i] = f[j] => i = j } :
            n \in 0..MaxFields }

INPUT == "titles.json"
OUTPUT == "out.json"
Paths == {INPUT, OUTPUT}
None == "None"

NoFile == [exists |-> FALSE, text |-> << >>]
File(text) == [exists |-> TRUE, text |-> text]

\* What the input path holds before the run: nothing, text that is no JSON,
\* JSON that is no object, or a database.
InputFiles ==
    { NoFile, File(<< TokP("{"), TokStr("T1") >>), File(<< TokLit("[]") >>) }
    \cup { File(Dump(db)) : db \in Databases }

\* ------------------------------------------------------------------- state
VARIABLES
    prog,         \* "tiny" or "trim": the script that runs
    argv,         \* the command line: input_file, output_file, fields
    pc,           \* the next statement of the script
    fs,           \* the file system: path -> file
    fs0,          \* the file system when the run started
    output_file,  \* tiny.py line 119
    fields,       \* tiny.py line 120
    data,         \* the loaded JSON value
    new_data,     \* the reduced mapping (the members of a dict)
    progress,     \* the counts at which tiny.py logged progress
    log,          \* the log records and tracebacks emitted so far
    stages,       \* the stages of the run entered so far
    exit_code,    \* the exit code, -1 while the process runs
    run,          \* 1, or 2 for a run on the output of the first
    first_out     \* the text the first run wrote

vars == << prog, argv, pc, fs, fs0, output_file, fields, data, new_data,
           progress, log, stages, exit_code, run, first_out >>

Running == exit_code = -1

Init ==
    /\ prog \in {"tiny", "trim"}
    /\ argv \in
         IF prog = "tiny"
         THEN { [input_file |-> INPUT, output_file |-> o, given |-> g, fields |-> f] :
                o \in {None, OUTPUT}, g \in {TRUE}, f \in FieldLists }
              \cup { [input_file |-> INPUT, output_file |-> o, given |-> FALSE,
                      fields |-> << >>] : o \in {None, OUTPUT} }
         ELSE { [input_file |-> i, output_file |-> None, given |-> FALSE,
                 fields |-> << >>] : i \in {None, INPUT} }
    /\ fs \in { [p \in Paths |-> IF p = INPUT THEN f ELSE File(<< TokStr("old") >>)] :
                f \in InputFiles }
    /\ fs0 = fs
    /\ pc = "start"
    /\ output_file = None
    /\ fields = << >>
    /\ data = Lit("null")
    /\ new_data = << >>
    /\ progress = << >>
    /\ log = << >>
    /\ stages = << >>
    /\ exit_code = -1
    /\ run = 1
    /\ first_out = << >>

Info(stage) == [level |-> "INFO", stage |-> stage, names |-> {}]
Error(stage, names) == [level |-> "ERROR", stage |-> stage, names |-> names]
\* An uncaught exception: the interpreter prints a traceback and exits 1.
Traceback(stage, exc) == [level |-> "TRACEBACK", stage |-> stage, names |-> {exc}]

\* Exit as sys.exit() without its argument: the code is 0.
Exit_no_code(code) == exit_code' = 0 /\ pc' = "exited"

\* sys.exit(code), or the end of the script (code 0), or an uncaught
\* exception (code 1).
Exit(code) == exit_code' = code /\ pc' = "exited"

\* ----------------------------------------------------------------- tiny.py
\* Lines 111-120: the arguments, the default of -o and of -f.
ParseArgs ==
    /\ prog = "tiny" /\ Running /\ pc = "start"
    /\ output_file' = IF argv.output_file = None THEN argv.input_file ELSE argv.output_file
    /\ fields' = IF ~argv.given THEN VALID_FIELDS ELSE argv.fields
    /\ log' = Append(log, Info("start"))
    /\ pc' = "validate"
    /\ UNCHANGED << prog, argv, fs, fs0, data, new_data, progress, stages, exit_code,
                    run, first_out >>

\* FieldsRejected with any() in place of all().
FieldsRejected_any(names) ==
    names # << >> /\ ~(\E i \in DOMAIN names : names[i] \in SeqToSet(VALID_FIELDS))

\* Line 40: the test of validate_fields.
FieldsRejected(names) ==
    names # << >> /\ ~(\A i \in DOMAIN names : names[i] \in SeqToSet(VALID_FIELDS))

\* Lines 32-44 and 123: validate_fields(fields).
ValidateFields ==
    /\ prog = "tiny" /\ Running /\ pc = "validate"
    /\ stages' = Append(stages, "validate")
    /\ IF FieldsRejected(fields)
       THEN /\ log' = Append(log, Error("validate", SeqToSet(fields) \ SeqToSet(VALID_FIELDS)))
            /\ Exit(1)
       ELSE /\ log' = log
            /\ pc' = "read"
            /\ UNCHANGED exit_code
    /\ UNCHANGED << prog, argv, fs, fs0, output_file, fields, data, new_data, progress,
                    run, first_out >>

\* len(data) of line 131 raises TypeError on a number, a boolean or null.
HasLen(v) == v.t \in {"str", "obj"} \/ v.s = "[]"

\* Lines 47-68 and 126-131: read_json_file(titledb_path), then the size.
ReadJsonFile ==
    /\ prog = "tiny" /\ Running /\ pc = "read"
    /\ stages' = Append(stages, "read")
    /\ LET f == fs[argv.input_file]
           loaded == Load(f.text)
       IN  IF ~f.exists
           THEN /\ log' = Append(log, Error("read", {"does not exist"}))
                /\ Exit(1)
                /\ data' = data
           ELSE IF ~loaded.ok
           THEN /\ log' = Append(log, Error("read", {"not a valid JSON file"}))
                /\ Exit(1)
                /\ data' = data
           ELSE IF ~HasLen(loaded.v)
           THEN /\ log' = Append(log, Traceback("read", "TypeError"))
                /\ Exit(1)
                /\ data' = loaded.v
           ELSE /\ log' = Append(log, Info("read"))
                /\ data' = loaded.v
                /\ pc' = "trim"
                /\ UNCHANGED exit_code
    /\ UNCHANGED << prog, argv, fs, fs0, output_file, fields, new_data, progress,
                    run, first_out >>

\* Line 134: new_data = trim_titledb(data, fields).
TrimTitledb ==
    /\ prog = "tiny" /\ Running /\ pc = "trim"
    /\ stages' = Append(stages, "trim")
    /\ LET r == trim_titledb(data, fields) IN
       /\ progress' = r.progress
       /\ IF r.raised # ""
          THEN /\ log' = Append(log, Traceback("trim", r.raised))
               /\ Exit(1)
               /\ new_data' = new_data
          ELSE /\ log' = Append(log, Info("trim"))
               /\ new_data' = r.new_data
               /\ pc' = "write"
               /\ UNCHANGED exit_code
    /\ UNCHANGED << prog, argv, fs, fs0, output_file, fields, data, run, first_out >>

\* Line 80: open(output_file, "w") creates the file or empties it.
WriteOpen ==
    /\ prog = "tiny" /\ Running /\ pc = "write"
    /\ stages' = Append(stages, "write")
    /\ fs' = [fs EXCEPT ![output_file] = File(<< >>)]
    /\ pc' = "dump"
    /\ UNCHANGED << prog, argv, fs0, output_file, fields, data, new_data, progress, log,
                    exit_code, run, first_out >>

\* Lines 80 and 82-85: open raises (no permission, no directory); the file
\* is as it was.
WriteOpenFails ==
    /\ prog = "tiny" /\ Running /\ pc = "write"
    /\ stages' = Append(stages, "write")
    /\ log' = Append(log, Error("write", {"Error writing"}))
    /\ Exit(1)
    /\ UNCHANGED << prog, argv, fs, fs0, output_file, fields, data, new_data, progress,
                    run, first_out >>

\* Line 81: json.dump writes the whole text.
WriteDump ==
    /\ prog = "tiny" /\ Running /\ pc = "dump"
    /\ fs' = [fs EXCEPT ![output_file] = File(Dump(Obj(new_data)))]
    /\ pc' = "stats"
    /\ UNCHANGED << prog, argv, fs0, output_file, fields, data, new_data, progress, log,
                    stages, exit_code, run, first_out >>

\* Lines 81-85: a write raises (disk full, I/O error) after some of the text
\* went out.
WriteDumpFails ==
    /\ prog = "tiny" /\ Running /\ pc = "dump"
    /\ \E n \in 0..(Len(Dump(Obj(new_data))) - 1) :
         fs' = [fs EXCEPT ![output_file] = File(SubSeq(Dump(Obj(new_data)), 1, n))]
    /\ log' = Append(log, Error("write", {"Error writing"}))
    /\ Exit(1)
    /\ UNCHANGED << prog, argv, fs0, output_file, fields, data, new_data, progress,
                    stages, run, first_out >>

\* Lines 140-142: the statistics, then the end of the script.
Finish ==
    /\ prog = "tiny" /\ Running /\ pc = "stats"
    /\ log' = Append(log, Info("end"))
    /\ Exit(0)
    /\ UNCHANGED << prog, argv, fs, fs0, output_file, fields, data, new_data, progress,
                    stages, run, first_out >>

\* tiny.py run again, with the same -f, on the file the first run wrote.
Rerun ==
    /\ prog = "tiny" /\ pc = "exited" /\ exit_code = 0 /\ run = 1
    /\ run' = 2
    /\ first_out' = fs[output_file].text
    /\ argv' = [argv EXCEPT !.input_file = output_file, !.output_file = None]
    /\ fs0' = fs
    /\ pc' = "start"
    /\ exit_code' = -1
    /\ output_file' = None
    /\ fields' = << >>
    /\ data' = Lit("null")
    /\ new_data' = << >>
    /\ progress' = << >>
    /\ log' = << >>
    /\ stages' = << >>
    /\ UNCHANGED << prog, fs >>

\* ----------------------------------------------------------------- trim.py
\* Lines 8-13: the usage test, then open and json.load, neither guarded.
TrimPyRead ==
    /\ prog = "trim" /\ Running /\ pc = "start"
    /\ IF argv.input_file = None
       THEN /\ log' = Append(log, Info("usage"))
            /\ Exit(1)
            /\ UNCHANGED << data, stages >>
       ELSE /\ stages' = Append(stages, "read")
            /\ LET f == fs[argv.input_file]
                   loaded == Load(f.text)
               IN  IF ~f.exists
                   THEN /\ log' = Append(log, Traceback("read", "FileNotFoundError"))
                        /\ Exit(1)
                        /\ data' = data
                   ELSE IF ~loaded.ok
                   THEN /\ log' = Append(log, Traceback("read", "JSONDecodeError"))
                        /\ Exit(1)
                        /\ data' = data
                   ELSE /\ data' = loaded.v
                        /\ pc' = "trim"
                        /\ UNCHANGED << log, exit_code >>
    /\ UNCHANGED << prog, argv, fs, fs0, output_file, fields, new_data, progress,
                    run, first_out >>

\* Lines 15-27: the pass over the items.
TrimPyPass ==
    /\ prog = "trim" /\ Running /\ pc = "trim"
    /\ stages' = Append(stages, "trim")
    /\ LET r == trim_py(data) IN
       IF r.raised # ""
       THEN /\ log' = Append(log, Traceback("trim", r.raised))
            /\ Exit(1)
            /\ new_data' = new_data
       ELSE /\ new_data' = r.new_data
            /\ pc' = "write"
            /\ UNCHANGED << log, exit_code >>
    /\ UNCHANGED << prog, argv, fs, fs0, output_file, fields, data, progress, run,
                    first_out >>

\* Line 28: open(sys.argv[1], 'w') empties the input file.
TrimPyOpen ==
    /\ prog = "trim" /\ Running /\ pc = "write"
    /\ stages' = Append(stages, "write")
    /\ fs' = [fs EXCEPT ![argv.input_file] = File(<< >>)]
    /\ pc' = "dump"
    /\ UNCHANGED << prog, argv, fs0, output_file, fields, data, new_data, progress, log,
                    exit_code, run, first_out >>

\* Line 28: open raises; nothing catches it.
TrimPyOpenFails ==
    /\ prog = "trim" /\ Running /\ pc = "write"
    /\ stages' = Append(stages, "write")
    /\ log' = Append(log, Traceback("write", "OSError"))
    /\ Exit(1)
    /\ UNCHANGED << prog, argv, fs, fs0, output_file, fields, data, new_data, progress,
                    run, first_out >>

\* Line 29: json.dump writes the whole text; the script ends.
TrimPyDump ==
    /\ prog = "trim" /\ Running /\ pc = "dump"
    /\ fs' = [fs EXCEPT ![argv.input_file] = File(Dump(Obj(new_data)))]
    /\ Exit(0)
    /\ UNCHANGED << prog, argv, fs0, output_file, fields, data, new_data, progress, log,
                    stages, run, first_out >>

\* Line 29: a write raises after some of the text went out.
TrimPyDumpFails ==
    /\ prog = "trim" /\ Running /\ pc = "dump"
    /\ \E n \in 0..(Len(Dump(Obj(new_data))) - 1) :
         fs' = [fs EXCEPT ![argv.input_file] = File(SubSeq(Dump(Obj(new_data)), 1, n))]
    /\ log' = Append(log, Traceback("write", "OSError"))
    /\ Exit(1)
    /\ UNCHANGED << prog, argv, fs0, output_file, fields, data, new_data, progress,
                    stages, run, first_out >>

Next ==
    \/ ParseArgs
    \/ ValidateFields
    \/ ReadJsonFile
    \/ TrimTitledb
    \/ WriteOpen
    \/ WriteOpenFails
    \/ WriteDump
    \/ WriteDumpFails
    \/ Finish
    \/ Rerun
    \/ TrimPyRead
    \/ TrimPyPass
    \/ TrimPyOpen
    \/ TrimPyOpenFails
    \/ TrimPyDump
    \/ TrimPyDumpFails

Spec == Init /\ [][Next]_vars

\* -------------------------------------------------------------- properties
\* A record whose "name" is present and truthy, spelled out value by value.
IsNamed(v) ==
    /\ v.t = "obj"
    /\ \E i \in DOMAIN v.m :
         /\ v.m[i][1] = "name"
         /\ v.m[i][2] \notin { Str(""), Lit("null"), Lit("false"), Lit("0"), Lit("0.0"),
                               Lit("[]"), Obj(<< >>) }

AllowList == SeqToSet(VALID_FIELDS)

\* The command line asks for a name outside the allow-list.
RequestedInvalid == argv.given /\ \E i \in DOMAIN argv.fields : argv.fields[i] \notin AllowList

\* -f is omitted, or given without names, or names "name".
SelectionKeepsName ==
    ~argv.given \/ argv.fields = << >> \/ "name" \in SeqToSet(argv.fields)

\* tiny.py's trim_titledb has returned.
TrimDone == prog = "tiny" /\ \E i \in DOMAIN log : log[i] = Info("trim")

\* trim.py's pass over the items has finished.
PassDone == prog = "trim" /\ "write" \in SeqToSet(stages)

\* The ids of the named titles of a dict, in its order.
NamedIds(m) == KeySeq(SelectSeq(m, LAMBDA p : IsNamed(p[2])))

HasErrorOrTraceback == \E i \in DOMAIN log : log[i].level \in {"ERROR", "TRACEBACK"}

\* C1, as claimed: every record in the output of trim_titledb has a "name"
\* key with a truthy value, whatever the field selection.
C1_EveryOutputRecordHasName ==
    TrimDone => \A i \in DOMAIN new_data : IsNamed(new_data[i][2])

\* C1, amended: every record in the output of trim_titledb comes from an
\* input record whose "name" is truthy; the output record itself has a truthy
\* "name" when -f is omitted, empty or names "name", and has no "name" key
\* otherwise.
C1_OutputRecordsComeFromNamedTitles ==
    TrimDone =>
      \A i \in DOMAIN new_data :
        LET id == new_data[i][1]
            out == new_data[i][2]
        IN  /\ Has(data.m, id)
            /\ IsNamed(Get(data.m, id))
            /\ SelectionKeepsName => IsNamed(out)
            /\ ~SelectionKeepsName => ~Has(out.m, "name")

C1_Witness ==
    /\ TrimDone
    /\ argv.fields = << "id", "name" >>
    /\ Len(new_data) = 2
    /\ Len(data.m) = 3

\* C2, as claimed: a second run of tiny.py with the same field selection on
\* the output of the first leaves the very same text, whatever the selection.
C2_Idempotent ==
    (prog = "tiny" /\ run = 2 /\ pc = "exited" /\ exit_code = 0)
      => fs[output_file].text = first_out

\* C2, amended: a second run of tiny.py with the same field selection on the
\* output of the first leaves the very same text when -f is omitted, empty or
\* names "name".
C2_IdempotentWhenNameIsKept ==
    (prog = "tiny" /\ run = 2 /\ pc = "exited" /\ exit_code = 0 /\ SelectionKeepsName)
      => fs[output_file].text = first_out

C2_Witness ==
    /\ prog = "tiny" /\ run = 2 /\ pc = "exited" /\ exit_code = 0
    /\ argv.fields = << "id", "name" >>
    /\ Len(new_data) = 2
    /\ fs[output_file].text = first_out

\* C3: when -f is omitted, every retained record has exactly the keys of its
\* input record, those outside the allow-list included.
C3_OmittedKeepsEveryKey ==
    (TrimDone /\ ~argv.given) =>
      \A i \in DOMAIN new_data :
        Keys(new_data[i][2].m) = Keys(Get(data.m, new_data[i][1]).m)

\* C4: when a non-empty list of valid fields is requested, the keys of every
\* retained record are the requested fields its input record has, all of them
\* in the allow-list, each with the input record's value.
C4_OnlyRequestedExistingFields ==
    (TrimDone /\ argv.given /\ argv.fields # << >>) =>
      \A i \in DOMAIN new_data :
        LET out == new_data[i][2].m
            inp == Get(data.m, new_data[i][1]).m
        IN  /\ Keys(out) = SeqToSet(argv.fields) \cap Keys(inp)
            /\ Keys(out) \subseteq AllowList
            /\ \A k \in Keys(out) : Get(out, k) = Get(inp, k)

C4_Witness ==
    /\ TrimDone /\ argv.given
    /\ argv.fields = << "id", "name" >>
    /\ \E i \in DOMAIN new_data :
         /\ Keys(new_data[i][2].m) = {"name"}
         /\ "extra" \in Keys(Get(data.m, new_data[i][1]).m)
    /\ \E i \in DOMAIN new_data : KeySeq(new_data[i][2].m) = << "id", "name" >>

\* C5: the ids of the output mapping are the ids of the input mapping whose
\* record has a truthy "name", in the input's order, in tiny.py and in
\* trim.py, in memory and in the file a successful run leaves.
C5_OutputIdsAreNamedInputIds ==
    /\ (TrimDone \/ PassDone) => KeySeq(new_data) = NamedIds(data.m)
    /\ ((TrimDone \/ PassDone) /\ exit_code = 0) =>
         LET path == IF prog = "tiny" THEN output_file ELSE argv.input_file IN
         /\ Load(fs[path].text).ok
         /\ KeySeq(Load(fs[path].text).v.m) = NamedIds(data.m)

C5_Witness ==
    /\ TrimDone /\ exit_code = 0
    /\ Len(data.m) = 3
    /\ ~IsNamed(data.m[2][2])
    /\ KeySeq(new_data) = << data.m[1][1], data.m[3][1] >>

\* C6: when a requested field is outside the allow-list, tiny.py stops at
\* validation: it never reads the input or opens the output, every file stays
\* as it was, and it exits with code 1 after an error that names exactly the
\* unrecognized fields.
C6_InvalidFieldStopsAtValidation ==
    (prog = "tiny" /\ RequestedInvalid) =>
      /\ fs = fs0
      /\ pc \in {"start", "validate", "exited"}
      /\ "read" \notin SeqToSet(stages) /\ "write" \notin SeqToSet(stages)
      /\ pc = "exited" =>
           /\ exit_code = 1
           /\ log[Len(log)] = Error("validate", SeqToSet(argv.fields) \ AllowList)

C6_Witness ==
    /\ prog = "tiny" /\ pc = "exited"
    /\ argv.fields = << "name", "notAField" >>
    /\ exit_code = 1

\* C7: when tiny.py has exited, the output file holds either the whole
\* serialized result or what it held before the run.
C7_OutputWrittenWhollyOrNotAtAll ==
    (prog = "tiny" /\ pc = "exited") =>
      \/ fs[output_file] = fs0[output_file]
      \/ fs[output_file] = File(Dump(Obj(new_data)))

C9_EmptyDatabase ==
    (prog = "tiny" /\ data = Obj(<< >>) /\ "trim" \in SeqToSet(stages)) =>
      /\ TrimDone
      /\ new_data = << >>
      /\ progress = << >>
      /\ \A i \in DOMAIN log : log[i].level # "TRACEBACK"
      /\ exit_code = 0 => fs[output_file].text = << TokP("{"), TokP("}") >>

C9_Witness ==
    /\ prog = "tiny" /\ data = Obj(<< >>) /\ exit_code = 0
    /\ argv.fields = << "id" >>
    /\ run = 1

\* C10: trim.py opens its file for writing only after the pass: until then
\* the file system is as it was; a named record that lacks one of the six
\* keys ends the run in the pass with the file untouched; and once the pass
\* is over every record to write has exactly the six keys.
C10_TrimPyWritesAfterThePass ==
    prog = "trim" =>
      /\ ~PassDone => fs = fs0
      /\ (data.t = "obj" /\ pc = "exited"
            /\ \E i \in DOMAIN data.m :
                 /\ IsNamed(data.m[i][2])
                 /\ ~({"description", "iconUrl", "id", "name", "releaseDate", "size"}
                        \subseteq Keys(data.m[i][2].m))) =>
           /\ exit_code = 1
           /\ stages = << "read", "trim" >>
           /\ fs = fs0
      /\ PassDone =>
           \A i \in DOMAIN new_data :
             Keys(new_data[i][2].m) =
               {"description", "iconUrl", "id", "name", "releaseDate", "size"}
      /\ exit_code = 0 => Load(fs[argv.input_file].text).v = Obj(new_data)

C10_Witness ==
    /\ prog = "trim" /\ pc = "exited" /\ exit_code = 1
    /\ stages = << "read", "trim" >>
    /\ Len(data.m) = 3
    /\ IsNamed(data.m[1][2]) /\ Len(data.m[1][2].m) = 7
    /\ IsNamed(data.m[2][2]) /\ Len(data.m[2][2].m) = 3

====
